---- MODULE Spec2Model ----
(***************************************************************************)
(* State-machine model of xc_fasm.fasm2frames.fasm2frames: the FASM to     *)
(* frames pipeline (bank topology, PUDC_B pullup injection, ROI marking,   *)
(* main parse, STEPDOWN propagation, address-range scan, frame dump).      *)
(*                                                                         *)
(* A feature string is kept as the list that feature.split(".", 2) gives:  *)
(* <<tile>>, <<tile, x>> or <<tile, site, tag>>, the tag keeping its own   *)
(* dots.  The first two segments are those of feature.split(".").          *)
(* Substring tests on names ('"IOB33" in tile') are tables over the names  *)
(* of the modelled device.                                                 *)
(***************************************************************************)
EXTENDS Integers, Sequences, FiniteSets, TLC

VARIABLES
    pc,                 \* position in fasm2frames
    part_selected,      \* part is not None
    emit_pudc_b_pullup, \* the flag of the same name
    sparse,             \* the flag of the same name
    roi,                \* the ROI document roi_j, or None
    fabric,             \* which segbits database the part has
    pudc_pin,           \* the grid site whose pin function has PUDC_B, or None
    tileinfo,           \* the grid: assembler.grid.tileinfo, in iteration order
    package_pins,       \* rows of package_pins.csv
    fasm_lines,         \* lines of the FASM file filename_in
    extra_features,     \* ROI required features + part required features
    tile_to_bank,
    bank_to_tile,
    pudc_b_tile_site,
    pudc_b_in_use,
    callback,           \* the callback registered on the assembler
    set_features,
    assembler,          \* [frames_in_use, frames]: the FasmAssembler's state
    pudc_submitted,     \* lines the PUDC_B pass gave to add_fasm_line
    stepdown_submitted, \* lines the STEPDOWN pass gave to add_fasm_line
    used_iob_sites,
    stepdown_banks,
    stepdown_tags,
    missing_features,
    error,              \* the exception fasm2frames raised, or None
    list_of_frames,
    ranges,             \* clb/bram start/end addresses
    frames,             \* result of assembler.get_frames
    f_out               \* lines written to the output file

vars == <<pc, part_selected, emit_pudc_b_pullup, sparse, roi, fabric, pudc_pin,
          tileinfo, package_pins, fasm_lines, extra_features, tile_to_bank,
          bank_to_tile, pudc_b_tile_site, pudc_b_in_use, callback,
          set_features, assembler, pudc_submitted, stepdown_submitted,
          used_iob_sites, stepdown_banks, stepdown_tags, missing_features,
          error, list_of_frames, ranges, frames, f_out>>

(***************************************************************************)
(* Bounds of the model.                                                    *)
(***************************************************************************)
MaxFasmLines == 2
MaxPinRows == 2
MaxScanTiles == 2
MaxScanAddr == 3
WordsPerFrame == 2

\* Python's None and an optional value: a sequence of length 0 or 1 (a pair for
\* the (tile, site) of the PUDC_B pin).
None == <<>>
Some(x) == <<x>>

(***************************************************************************)
(* Generic helpers.                                                        *)
(***************************************************************************)
Range(s) == {s[i] : i \in DOMAIN s}

Perms(S) ==
    {s \in [1..Cardinality(S) -> S] : \A i, j \in DOMAIN s : s[i] = s[j] => i = j}

RECURSIVE Flatten(_)
Flatten(ss) ==
    IF ss = <<>> THEN <<>> ELSE Head(ss) \o Flatten(Tail(ss))

RECURSIVE SortedSeq(_)
SortedSeq(S) ==
    IF S = {} THEN <<>>
    ELSE LET m == CHOOSE x \in S : \A y \in S : x <= y
         IN  <<m>> \o SortedSeq(S \ {m})

RECURSIVE Pow(_, _)
Pow(b, e) == IF e = 0 THEN 1 ELSE b * Pow(b, e - 1)

(***************************************************************************)
(* The device: tile names, the grid, the part files.                       *)
(***************************************************************************)
T1 == "LIOB33_X0Y1"
T2 == "LIOB33_X0Y3"
T3 == "LIOB33_X0Y51"
T4 == "LIOB33_SING_X0Y0"
HC1 == "HCLK_IOI3_X1Y26"
HC2 == "HCLK_IOI3_X1Y78"
CLB == "CLBLL_L_X2Y1"
BRAM == "BRAM_L_X6Y0"

CLB_IO_CLK == "CLB_IO_CLK"
BLOCK_RAM == "BLOCK_RAM"
BlockTypes == {CLB_IO_CLK, BLOCK_RAM}

\* "IOB33" in tile
HasIOB33(tile) == tile \in {T1, T2, T3, T4}

\* "HCLK_IOI3" in tile
HasHCLK_IOI3(tile) == tile \in {HC1, HC2}

Site(name, last) == [name |-> name, last |-> last]

Bits(base, n, off) == [base_address |-> base, frames |-> n, offset |-> off]

Tile(name, type, x, y, sites, bits) ==
    [name |-> name, type |-> type, grid_x |-> x, grid_y |-> y,
     sites |-> sites, bits |-> bits]

\* The grid of the modelled part, in the iteration order of grid.tileinfo.
Device ==
    << Tile(T4, "LIOB33_SING", 0, 0, <<Site("IOB_X0Y0", 0)>>,
            (CLB_IO_CLK :> Bits(3, 2, 1))),
       Tile(T1, "LIOB33", 0, 1, <<Site("IOB_X0Y1", 1), Site("IOB_X0Y2", 2)>>,
            (CLB_IO_CLK :> Bits(0, 2, 0))),
       Tile(T2, "LIOB33", 0, 3, <<Site("IOB_X0Y3", 3), Site("IOB_X0Y4", 4)>>,
            (CLB_IO_CLK :> Bits(0, 2, 1))),
       Tile(HC1, "HCLK_IOI3", 1, 26, <<>>,
            (CLB_IO_CLK :> Bits(2, 1, 0))),
       Tile(T3, "LIOB33", 0, 51, <<Site("IOB_X0Y51", 1), Site("IOB_X0Y52", 2)>>,
            (CLB_IO_CLK :> Bits(3, 2, 0))),
       Tile(HC2, "HCLK_IOI3", 1, 78, <<>>,
            (CLB_IO_CLK :> Bits(5, 1, 0))),
       Tile(CLB, "CLBLL_L", 2, 1, <<Site("SLICE_X0Y1", 1)>>,
            (CLB_IO_CLK :> Bits(6, 1, 0))),
       Tile(BRAM, "BRAM_L", 6, 0, <<Site("RAMB36_X0Y0", 0)>>,
            (CLB_IO_CLK :> Bits(7, 1, 0)) @@ (BLOCK_RAM :> Bits(9, 2, 0))) >>

\* grid.gridinfo_at_tilename(tile)
gridinfo_at_tilename(tile) ==
    LET i == CHOOSE k \in DOMAIN tileinfo : tileinfo[k].name = tile
    IN  tileinfo[i]

\* part.json: "iobanks", in the order of part_data["iobanks"].items()
Iobanks == <<[bank |-> "14", loc |-> "X1Y26"], [bank |-> "15", loc |-> "X1Y78"]>>

\* "HCLK_IOI3_" + loc
HclkTileAt(loc) == IF loc = "X1Y26" THEN HC1 ELSE HC2

PinRow(bank, tile) == [bank |-> bank, tile |-> tile]

\* package_pins.csv of the modelled part (T4 is not bonded in this package).
DevicePins == <<PinRow("14", T1), PinRow("14", T2), PinRow("15", T3)>>

(***************************************************************************)
(* Features and FASM lines.                                                *)
(***************************************************************************)
STEP_A == "LVCMOS12_LVCMOS15_LVCMOS18.STEPDOWN"
STEP_B == "STEPDOWN_FOO"
IN_ONLY ==
    "LVCMOS12_LVCMOS15_LVCMOS18_LVCMOS25_LVCMOS33_LVDS_25_LVTTL_SSTL135_SSTL15_TMDS_33.IN_ONLY"
IN_BUF == "LVCMOS25_LVCMOS33_LVTTL.IN"
PULLUP == "PULLTYPE.PULLUP"

\* "STEPDOWN" in tag
HasSTEPDOWN(tag) == tag \in {STEP_A, STEP_B, "STEPDOWN"}

\* A parsed FASM line: its set_feature.
SetFeature(feature, value) == [feature |-> feature, value |-> value]

\* The lines a FASM file may hold.
FasmUniverse ==
    << SetFeature(<<T1, "IOB_Y0", STEP_A>>, 1),
       SetFeature(<<T1, "IOB_Y0", STEP_B>>, 1),
       SetFeature(<<T3, "IOB_Y0", STEP_A>>, 1),
       SetFeature(<<T1, "IOB_Y1", PULLUP>>, 1),
       SetFeature(<<T1, "IOB_Y1", PULLUP>>, 0),
       SetFeature(<<T2, "IOB_Y0", STEP_A>>, 0),
       SetFeature(<<CLB, "SLICEL_X0", "AFF.ZINI">>, 1),
       SetFeature(<<BRAM, "RAMB18_Y0", "IN_USE">>, 1),
       SetFeature(<<T2, "IOB_Y1", STEP_B>>, 1),
       SetFeature(<<T4, "IOB_Y0", STEP_A>>, 1) >>

\* The FASM files: at most MaxFasmLines lines of the universe, in its order.
FasmFiles ==
    { [i \in 1..Cardinality(S) |-> FasmUniverse[SortedSeq(S)[i]]] :
        S \in {X \in SUBSET DOMAIN FasmUniverse : Cardinality(X) <= MaxFasmLines} }

Fabrics == {"a50t", "k70t"}

\* db.get_required_fasm_features(part): this part requires none.
RequiredFeatures == <<>>

\* The ROI documents (design.json): the rectangle holds the CLB tile alone.
RoiDoc(x1, x2, y1, y2, required) ==
    [GRID_X_MIN |-> x1, GRID_X_MAX |-> x2, GRID_Y_MIN |-> y1, GRID_Y_MAX |-> y2,
     required_features |-> required]

RoiDocs ==
    { RoiDoc(2, 2, 1, 1, <<>>),
      RoiDoc(2, 2, 1, 1, <<SetFeature(<<BRAM, "RAMB18_Y0", "IN_USE">>, 1)>>) }

(***************************************************************************)
(* The segbits database of the part and the FasmAssembler (prjxray), whose *)
(* methods fasm2frames calls.                                              *)
(***************************************************************************)
SegBit(block, col, bit) == [block |-> block, word_column |-> col, word_bit |-> bit]

SegKey(type, tail) == <<type, tail>>

\* Segbits every fabric defines.
CommonSegbits ==
    (SegKey("LIOB33", <<"IOB_Y0", STEP_A>>) :> {SegBit(CLB_IO_CLK, 0, 0)}) @@
    (SegKey("LIOB33", <<"IOB_Y1", STEP_A>>) :> {SegBit(CLB_IO_CLK, 0, 1)}) @@
    (SegKey("LIOB33", <<"IOB_Y0", STEP_B>>) :> {SegBit(CLB_IO_CLK, 1, 0)}) @@
    (SegKey("LIOB33", <<"IOB_Y0", PULLUP>>) :> {SegBit(CLB_IO_CLK, 1, 2)}) @@
    (SegKey("LIOB33", <<"IOB_Y1", PULLUP>>) :> {SegBit(CLB_IO_CLK, 1, 3)}) @@
    (SegKey("LIOB33", <<"IOB_Y0", IN_BUF>>) :> {SegBit(CLB_IO_CLK, 1, 4)}) @@
    (SegKey("LIOB33", <<"IOB_Y1", IN_BUF>>) :> {SegBit(CLB_IO_CLK, 1, 5)}) @@
    (SegKey("LIOB33_SING", <<"IOB_Y0", STEP_A>>) :> {SegBit(CLB_IO_CLK, 0, 6)}) @@
    (SegKey("HCLK_IOI3", <<"STEPDOWN">>) :> {SegBit(CLB_IO_CLK, 0, 0)}) @@
    (SegKey("CLBLL_L", <<"SLICEL_X0", "AFF.ZINI">>) :> {SegBit(CLB_IO_CLK, 0, 0)}) @@
    (SegKey("BRAM_L", <<"RAMB18_Y0", "IN_USE">>) :> {SegBit(BLOCK_RAM, 1, 0)})

\* The IN_ONLY tag of the PUDC_B fallback and one STEPDOWN tag exist on the
\* 50T fabric alone (fasm2frames.py: "known to be wrong for the K70T fabric").
A50tSegbits ==
    (SegKey("LIOB33", <<"IOB_Y0", IN_ONLY>>) :> {SegBit(CLB_IO_CLK, 0, 2)}) @@
    (SegKey("LIOB33", <<"IOB_Y1", IN_ONLY>>) :> {SegBit(CLB_IO_CLK, 0, 3)}) @@
    (SegKey("LIOB33", <<"IOB_Y1", STEP_B>>) :> {SegBit(CLB_IO_CLK, 1, 1)})

Segbits(fab) == IF fab = "a50t" THEN A50tSegbits @@ CommonSegbits ELSE CommonSegbits

\* FasmAssembler.enable_feature: the frame bits (frame_addr, word_addr,
\* bit_index) of a feature of a tile, by update_segbit.
FeatureBits(fab, line) ==
    LET info == gridinfo_at_tilename(line.feature[1])
        segs == Segbits(fab)[SegKey(info.type, Tail(line.feature))]
    IN  { << info.bits[b.block].base_address + b.word_column,
             info.bits[b.block].offset + (b.word_bit \div 32),
             b.word_bit % 32 >> : b \in segs }

\* enable_feature raises FasmLookupError when the segbits lack the feature.
LookupFails(fab, line) ==
    SegKey(gridinfo_at_tilename(line.feature[1]).type, Tail(line.feature))
        \notin DOMAIN Segbits(fab)

\* The state add_fasm_line works on: the observers' variables, the assembler's
\* frame bits and the caller's missing_features list.
AsmState(sf, inuse, fiu, fr, missing) ==
    [set_features |-> sf, pudc_b_in_use |-> inuse, frames_in_use |-> fiu,
     frames |-> fr, missing |-> missing]

feature_callback(st, set_feature) ==
    [st EXCEPT !.set_features = @ \cup {set_feature}]

check_for_pudc_b(st, set_feature, tile_site) ==
    LET st1 == feature_callback(st, set_feature)
        parts == set_feature.feature
    IN  IF parts[1] = tile_site[1] /\ parts[2] = tile_site[2]
        THEN [st1 EXCEPT !.pudc_b_in_use = TRUE]
        ELSE st1

\* FasmAssembler.add_fasm_line(line, missing_features): the callback first,
\* then every canonical (enabled) feature of the line is looked up and set.
add_fasm_line(st, line, cb, tile_site, fab) ==
    LET st1 == IF cb = "check_for_pudc_b"
               THEN check_for_pudc_b(st, line, tile_site)
               ELSE feature_callback(st, line)
    IN  IF line.value = 0 THEN st1
        ELSE IF LookupFails(fab, line)
             THEN [st1 EXCEPT !.missing = Append(@, line.feature)]
             ELSE LET bits == FeatureBits(fab, line)
                  IN  [st1 EXCEPT !.frames = @ \cup bits,
                                  !.frames_in_use = @ \cup {b[1] : b \in bits}]

RECURSIVE AddLines(_, _, _, _, _)
AddLines(st, lines, cb, tile_site, fab) ==
    IF lines = <<>> THEN st
    ELSE AddLines(add_fasm_line(st, Head(lines), cb, tile_site, fab),
                  Tail(lines), cb, tile_site, fab)

\* The state of this run as add_fasm_line sees it, with an empty error list.
CurrentAsm ==
    AsmState(set_features, pudc_b_in_use, assembler.frames_in_use,
             assembler.frames, <<>>)

\* raise FasmLookupError('\n'.join(missing_features)), raised in the given stage
FasmLookupError(stage, missing) ==
    [kind |-> "FasmLookupError", at |-> stage, msg |-> missing]

KeyError(stage, key) == [kind |-> "KeyError", at |-> stage, msg |-> <<key>>]

(***************************************************************************)
(* The order of the stages of fasm2frames.                                 *)
(***************************************************************************)
\* Mutant: the frame map is taken and dumped right after the parse.
NextStageDumpAfterParse(stage) ==
    CASE stage = "topology"    -> "pudc_setup"
      [] stage = "pudc_setup"  -> "roi"
      [] stage = "roi"         -> "parse"
      [] stage = "parse"       -> "emit"
      [] stage = "emit"        -> "pudc_inject"
      [] stage = "pudc_inject" -> "stepdown"
      [] stage = "stepdown"    -> "scan"
      [] stage = "scan"        -> "done"

\* Mutant: the address-range scan runs before the STEPDOWN pass.
NextStageScanBeforeStepdown(stage) ==
    CASE stage = "topology"    -> "pudc_setup"
      [] stage = "pudc_setup"  -> "roi"
      [] stage = "roi"         -> "parse"
      [] stage = "parse"       -> "pudc_inject"
      [] stage = "pudc_inject" -> "scan"
      [] stage = "scan"        -> "stepdown"
      [] stage = "stepdown"    -> "emit"
      [] stage = "emit"        -> "done"

NextStage(stage) ==
    CASE stage = "topology"    -> "pudc_setup"
      [] stage = "pudc_setup"  -> "roi"
      [] stage = "roi"         -> "parse"
      [] stage = "parse"       -> "pudc_inject"
      [] stage = "pudc_inject" -> "stepdown"
      [] stage = "stepdown"    -> "scan"
      [] stage = "scan"        -> "emit"
      [] stage = "emit"        -> "done"

(***************************************************************************)
(* Bank topology (tile_to_bank, bank_to_tile).                             *)
(***************************************************************************)
Topology(t2b, b2t) == [tile_to_bank |-> t2b, bank_to_tile |-> b2t]

\* bank_to_tile[bank].add(tile); tile_to_bank[tile] = bank
AddBankTile(topo, bank, tile) ==
    LET old == IF bank \in DOMAIN topo.bank_to_tile
               THEN topo.bank_to_tile[bank] ELSE {}
    IN  Topology((tile :> bank) @@ topo.tile_to_bank,
                 (bank :> (old \cup {tile})) @@ topo.bank_to_tile)

RECURSIVE AddIobanks(_, _)
AddIobanks(topo, banks) ==
    IF banks = <<>> THEN topo
    ELSE AddIobanks(AddBankTile(topo, Head(banks).bank, HclkTileAt(Head(banks).loc)),
                    Tail(banks))

RECURSIVE AddPins(_, _)
AddPins(topo, pins) ==
    IF pins = <<>> THEN topo
    ELSE AddPins(AddBankTile(topo, Head(pins).bank, Head(pins).tile), Tail(pins))

BuildTopology ==
    /\ pc = "topology"
    /\ \E p \in BOOLEAN :
        LET topo == IF p
                    THEN AddPins(AddIobanks(Topology(<<>>, <<>>), Iobanks), package_pins)
                    ELSE Topology(<<>>, <<>>)
        IN  /\ part_selected' = p
            /\ tile_to_bank' = topo.tile_to_bank
            /\ bank_to_tile' = topo.bank_to_tile
    /\ pc' = NextStage("topology")
    /\ UNCHANGED <<emit_pudc_b_pullup, sparse, roi, fabric, pudc_pin, tileinfo,
                   package_pins, fasm_lines, extra_features, pudc_b_tile_site,
                   pudc_b_in_use, callback, set_features, assembler,
                   pudc_submitted, stepdown_submitted, used_iob_sites,
                   stepdown_banks, stepdown_tags, missing_features, error,
                   list_of_frames, ranges, frames, f_out>>

(***************************************************************************)
(* PUDC_B: find the pin, wrap the callback.                                *)
(***************************************************************************)
\* "IOB_Y{}".format(int(site[-1]) % 2)
IobSite(site) == IF site.last % 2 = 0 THEN "IOB_Y0" ELSE "IOB_Y1"

\* The grid sites whose pin function names PUDC_B.
PudcPins == {None, <<T1, Site("IOB_X0Y1", 1)>>}

find_pudc_b(pin) ==
    IF pin = None THEN None ELSE <<pin[1], IobSite(pin[2])>>

SetupPudc ==
    /\ pc = "pudc_setup"
    /\ \E e \in BOOLEAN, pin \in PudcPins :
        /\ emit_pudc_b_pullup' = e
        /\ pudc_pin' = pin
        /\ pudc_b_tile_site' = IF e THEN find_pudc_b(pin) ELSE None
        /\ callback' = IF e /\ find_pudc_b(pin) # None
                       THEN "check_for_pudc_b" ELSE "feature_callback"
    /\ pudc_b_in_use' = FALSE
    /\ pc' = NextStage("pudc_setup")
    /\ UNCHANGED <<part_selected, sparse, roi, fabric, tileinfo, package_pins,
                   fasm_lines, extra_features, tile_to_bank, bank_to_tile,
                   set_features, assembler, pudc_submitted, stepdown_submitted,
                   used_iob_sites, stepdown_banks, stepdown_tags,
                   missing_features, error, list_of_frames, ranges, frames, f_out>>

(***************************************************************************)
(* ROI: mark the frames of the rectangle's tiles, take the required        *)
(* features; then the part's required features.                            *)
(***************************************************************************)
\* The frame addresses of a tile's bit blocks.
TileFrames(info) ==
    UNION { info.bits[b].base_address ..
            (info.bits[b].base_address + info.bits[b].frames - 1) : b \in DOMAIN info.bits }

\* Roi.gen_tiles(): the tiles in the rectangle, both bounds inclusive.
RoiTiles(doc) ==
    { i \in DOMAIN tileinfo :
        /\ doc.GRID_X_MIN <= tileinfo[i].grid_x /\ tileinfo[i].grid_x <= doc.GRID_X_MAX
        /\ doc.GRID_Y_MIN <= tileinfo[i].grid_y /\ tileinfo[i].grid_y <= doc.GRID_Y_MAX }

\* FasmAssembler.mark_roi_frames(roi): every frame of every tile of the ROI
\* is put in frames_in_use.
mark_roi_frames(asm, doc) ==
    [asm EXCEPT !.frames_in_use =
        @ \cup UNION { TileFrames(tileinfo[i]) : i \in RoiTiles(doc) }]

MarkRoi ==
    /\ pc = "roi"
    /\ \E r \in {None} \cup {Some(d) : d \in RoiDocs} :
        /\ roi' = r
        /\ assembler' = IF r # None THEN mark_roi_frames(assembler, r[1]) ELSE assembler
        /\ extra_features' =
              (IF r # None THEN r[1].required_features ELSE <<>>) \o RequiredFeatures
    /\ pc' = NextStage("roi")
    /\ UNCHANGED <<part_selected, emit_pudc_b_pullup, sparse, fabric, pudc_pin,
                   tileinfo, package_pins, fasm_lines, tile_to_bank, bank_to_tile,
                   pudc_b_tile_site, pudc_b_in_use, callback, set_features,
                   pudc_submitted, stepdown_submitted, used_iob_sites,
                   stepdown_banks, stepdown_tags, missing_features, error,
                   list_of_frames, ranges, frames, f_out>>

(***************************************************************************)
(* The main parse: assembler.parse_fasm_filename(filename_in, extra).      *)
(***************************************************************************)
\* The file's lines, then the extra features; the failures are raised jointly.
parse_fasm_filename(st, lines, extra, cb, tile_site, fab) ==
    AddLines(AddLines(st, lines, cb, tile_site, fab), extra, cb, tile_site, fab)

Parse ==
    /\ pc = "parse"
    /\ \E file \in FasmFiles, fab \in Fabrics :
        LET st == parse_fasm_filename(CurrentAsm, file, extra_features, callback,
                                      pudc_b_tile_site, fab)
        IN  /\ fasm_lines' = file
            /\ fabric' = fab
            /\ set_features' = st.set_features
            /\ pudc_b_in_use' = st.pudc_b_in_use
            /\ assembler' = [frames_in_use |-> st.frames_in_use, frames |-> st.frames]
            /\ IF st.missing # <<>>
               THEN /\ error' = Some(FasmLookupError("parse", st.missing))
                    /\ pc' = "aborted"
               ELSE /\ error' = error
                    /\ pc' = NextStage("parse")
    /\ UNCHANGED <<part_selected, emit_pudc_b_pullup, sparse, roi, pudc_pin,
                   tileinfo, package_pins, extra_features, tile_to_bank,
                   bank_to_tile, pudc_b_tile_site, callback, pudc_submitted,
                   stepdown_submitted, used_iob_sites, stepdown_banks,
                   stepdown_tags, missing_features, list_of_frames,
                   ranges, frames, f_out>>

(***************************************************************************)
(* PUDC_B injection after the parse.                                       *)
(***************************************************************************)
\* The three lines of the fallback FASM string, formatted with tile and site.
PudcFallback(tile_site) ==
    << SetFeature(<<tile_site[1], tile_site[2], IN_ONLY>>, 1),
       SetFeature(<<tile_site[1], tile_site[2], IN_BUF>>, 1),
       SetFeature(<<tile_site[1], tile_site[2], PULLUP>>, 1) >>

\* emit_pudc_b_pullup and not pudc_b_in_use and pudc_b_tile_site is not None
PudcInjects ==
    emit_pudc_b_pullup /\ ~pudc_b_in_use /\ pudc_b_tile_site # None

PudcInject ==
    /\ pc = "pudc_inject"
    /\ IF PudcInjects
       THEN LET lines == PudcFallback(pudc_b_tile_site)
                st == AddLines(CurrentAsm, lines, callback, pudc_b_tile_site, fabric)
            IN  /\ pudc_submitted' = lines
                /\ set_features' = st.set_features
                /\ pudc_b_in_use' = st.pudc_b_in_use
                /\ assembler' = [frames_in_use |-> st.frames_in_use,
                                 frames |-> st.frames]
                /\ missing_features' = st.missing
                /\ IF st.missing # <<>>
                   THEN /\ error' = Some(FasmLookupError("parse", st.missing))
                        /\ pc' = "aborted"
                   ELSE /\ error' = error
                        /\ pc' = NextStage("pudc_inject")
       ELSE /\ pc' = NextStage("pudc_inject")
            /\ UNCHANGED <<pudc_submitted, set_features, pudc_b_in_use, assembler,
                           missing_features, error>>
    /\ UNCHANGED <<part_selected, emit_pudc_b_pullup, sparse, roi, fabric, pudc_pin,
                   tileinfo, package_pins, fasm_lines, extra_features,
                   tile_to_bank, bank_to_tile, pudc_b_tile_site, callback,
                   stepdown_submitted, used_iob_sites, stepdown_banks,
                   stepdown_tags, list_of_frames, ranges, frames, f_out>>

(***************************************************************************)
(* STEPDOWN propagation.                                                   *)
(***************************************************************************)
\* set_feature.value == 0: continue
NonZeroFeatures(sf) == {f \in sf : f.value # 0}

\* len(parts) >= 3 and "IOB33" in tile: used_iob_sites.add((tile, site))
UsedIobSites(sf) ==
    { <<f.feature[1], f.feature[2]>> :
        f \in {g \in NonZeroFeatures(sf) : Len(g.feature) >= 3 /\ HasIOB33(g.feature[1])} }

\* len(parts) >= 3 and "STEPDOWN" in tag
StepdownFeatures(sf) ==
    {f \in NonZeroFeatures(sf) : Len(f.feature) >= 3 /\ HasSTEPDOWN(f.feature[3])}

\* bank = tile_to_bank[tile] raises KeyError for a tile of no bank.
BankLookupFails(sf) ==
    \E f \in StepdownFeatures(sf) : f.feature[1] \notin DOMAIN tile_to_bank

StepdownBanks(sf) == {tile_to_bank[f.feature[1]] : f \in StepdownFeatures(sf)}

StepdownTags(sf) ==
    [bank \in StepdownBanks(sf) |->
        {f.feature[3] : f \in {g \in StepdownFeatures(sf) :
                                  tile_to_bank[g.feature[1]] = bank}}]

\* get_iob_sites(db, tile_name)
get_iob_sites(tile) ==
    LET sites == gridinfo_at_tilename(tile).sites
    IN  [i \in DOMAIN sites |-> IobSite(sites[i])]

\* Mutant: the test for a used site is dropped.
SiteIsUsedNever(used, tile, site) == FALSE

\* if (tile, site) in used_iob_sites: continue
SiteIsUsed(used, tile, site) == <<tile, site>> \in used

\* Mutant: the loop over the tags stops after the first tag.
TagLinesFirstOnly(tile, site, tagOrd) ==
    IF tagOrd = <<>> THEN <<>> ELSE <<SetFeature(<<tile, site, tagOrd[1]>>, 1)>>

\* for tag in stepdown_tags[bank]: "{}.{}.{}".format(tile, site, tag)
TagLines(tile, site, tagOrd) ==
    [t \in DOMAIN tagOrd |-> SetFeature(<<tile, site, tagOrd[t]>>, 1)]

\* The lines synthesized for one tile of a STEPDOWN bank.
TileLines(tile, used, tagOrd) ==
    (IF HasIOB33(tile)
     THEN LET sites == get_iob_sites(tile)
          IN  Flatten([i \in DOMAIN sites |->
                        IF SiteIsUsed(used, tile, sites[i]) THEN <<>>
                        ELSE TagLines(tile, sites[i], tagOrd)])
     ELSE <<>>)
    \o (IF HasHCLK_IOI3(tile) THEN <<SetFeature(<<tile, "STEPDOWN">>, 1)>> ELSE <<>>)

\* The lines of the whole pass, the three sets iterated in the given orders:
\* bankOrd lists stepdown_banks, tileOrd[bank] lists bank_to_tile[bank],
\* tagOrd[bank] lists stepdown_tags[bank].
StepdownLines(used, bankOrd, tileOrd, tagOrd) ==
    Flatten([b \in DOMAIN bankOrd |->
        Flatten([k \in DOMAIN tileOrd[bankOrd[b]] |->
            TileLines(tileOrd[bankOrd[b]][k], used, tagOrd[bankOrd[b]])])])

\* The orders in which the sets of the pass may be iterated.
OrdersOf(family) ==
    { f \in [DOMAIN family -> UNION {Perms(family[b]) : b \in DOMAIN family}] :
        \A b \in DOMAIN family : f[b] \in Perms(family[b]) }

\* Mutant: the pass stops at the first lookup failure.
RECURSIVE SubmitUntilFailureFrom(_, _, _, _, _, _)
SubmitUntilFailureFrom(st, done, lines, cb, tile_site, fab) ==
    IF lines = <<>> \/ st.missing # <<>> THEN [st |-> st, submitted |-> done]
    ELSE SubmitUntilFailureFrom(add_fasm_line(st, Head(lines), cb, tile_site, fab),
                                Append(done, Head(lines)), Tail(lines),
                                cb, tile_site, fab)

SubmitUntilFailure(st, lines, cb, tile_site, fab) ==
    SubmitUntilFailureFrom(st, <<>>, lines, cb, tile_site, fab)

\* assembler.add_fasm_line(line, missing_features) for every line of the pass.
SubmitAll(st, lines, cb, tile_site, fab) ==
    [st |-> AddLines(st, lines, cb, tile_site, fab), submitted |-> lines]

\* What the pass leaves: the assembler and observers, the lines submitted and
\* the exception raised.
StepdownOutcome(bankOrd, tileOrd, tagOrd) ==
    LET used == UsedIobSites(set_features)
        lines == StepdownLines(used, bankOrd, tileOrd, tagOrd)
        run == SubmitAll(CurrentAsm, lines, callback, pudc_b_tile_site, fabric)
    IN  [st |-> run.st, submitted |-> run.submitted,
         error |-> IF run.st.missing # <<>>
                   THEN Some(FasmLookupError("stepdown", run.st.missing)) ELSE None]

Stepdown ==
    /\ pc = "stepdown"
    /\ IF ~part_selected
       THEN /\ pc' = NextStage("stepdown")
            /\ UNCHANGED <<set_features, pudc_b_in_use, assembler,
                           stepdown_submitted, used_iob_sites, stepdown_banks,
                           stepdown_tags, missing_features, error>>
       ELSE IF BankLookupFails(set_features)
       THEN /\ pc' = "aborted"
            /\ error' = Some(KeyError("stepdown",
                  CHOOSE t \in {f.feature[1] : f \in StepdownFeatures(set_features)} :
                      t \notin DOMAIN tile_to_bank))
            /\ UNCHANGED <<set_features, pudc_b_in_use, assembler,
                           stepdown_submitted, used_iob_sites, stepdown_banks,
                           stepdown_tags, missing_features>>
       ELSE \E bankOrd \in Perms(StepdownBanks(set_features)) :
            \E tileOrd \in OrdersOf([b \in StepdownBanks(set_features) |-> bank_to_tile[b]]) :
            \E tagOrd \in OrdersOf(StepdownTags(set_features)) :
            LET out == StepdownOutcome(bankOrd, tileOrd, tagOrd)
            IN  /\ used_iob_sites' = UsedIobSites(set_features)
                /\ stepdown_banks' = StepdownBanks(set_features)
                /\ stepdown_tags' = StepdownTags(set_features)
                /\ stepdown_submitted' = out.submitted
                /\ set_features' = out.st.set_features
                /\ pudc_b_in_use' = out.st.pudc_b_in_use
                /\ assembler' = [frames_in_use |-> out.st.frames_in_use,
                                 frames |-> out.st.frames]
                /\ missing_features' = out.st.missing
                /\ error' = out.error
                /\ pc' = IF out.error # None THEN "aborted" ELSE NextStage("stepdown")
    /\ UNCHANGED <<part_selected, emit_pudc_b_pullup, sparse, roi, fabric, pudc_pin,
                   tileinfo, package_pins, fasm_lines, extra_features,
                   tile_to_bank, bank_to_tile, pudc_b_tile_site, callback,
                   pudc_submitted, list_of_frames, ranges, frames, f_out>>

(***************************************************************************)
(* Address-range scan.                                                     *)
(***************************************************************************)
\* block in block_types and addr in range(base_address, base_address + frames)
InBlock(addr, info, block) ==
    /\ block \in DOMAIN info.bits
    /\ info.bits[block].base_address <= addr
    /\ addr < info.bits[block].base_address + info.bits[block].frames

\* Mutant: the two loops of the scan are swapped (tiles outside, addresses
\* inside).
ScanListTilesOutside(lof, tinfo, block) ==
    Flatten([i \in DOMAIN tinfo |->
        Flatten([a \in DOMAIN lof |->
            IF InBlock(lof[a], tinfo[i], block) THEN <<lof[a]>> ELSE <<>>])])

\* The list the scan appends to: for addr in list_of_frames, for info in
\* tileinfo, addr is appended once for each tile whose block holds it.
ScanList(lof, tinfo, block) ==
    Flatten([a \in DOMAIN lof |->
        Flatten([i \in DOMAIN tinfo |->
            IF InBlock(lof[a], tinfo[i], block) THEN <<lof[a]>> ELSE <<>>])])

\* l[0] if l else None, l[-1] if l else None
FirstOf(l) == IF l # <<>> THEN Some(l[1]) ELSE None
LastOf(l) == IF l # <<>> THEN Some(l[Len(l)]) ELSE None

ScanRanges(lof, tinfo) ==
    [clb_start_address |-> FirstOf(ScanList(lof, tinfo, CLB_IO_CLK)),
     clb_end_address |-> LastOf(ScanList(lof, tinfo, CLB_IO_CLK)),
     bram_start_address |-> FirstOf(ScanList(lof, tinfo, BLOCK_RAM)),
     bram_end_address |-> LastOf(ScanList(lof, tinfo, BLOCK_RAM))]

Scan ==
    /\ pc = "scan"
    /\ list_of_frames' = SortedSeq(assembler.frames_in_use)
    /\ ranges' = ScanRanges(SortedSeq(assembler.frames_in_use), tileinfo)
    /\ pc' = NextStage("scan")
    /\ UNCHANGED <<part_selected, emit_pudc_b_pullup, sparse, roi, fabric, pudc_pin,
                   tileinfo, package_pins, fasm_lines, extra_features,
                   tile_to_bank, bank_to_tile, pudc_b_tile_site, pudc_b_in_use,
                   callback, set_features, assembler, pudc_submitted,
                   stepdown_submitted, used_iob_sites, stepdown_banks,
                   stepdown_tags, missing_features, error, frames, f_out>>

(***************************************************************************)
(* The frame map and its persisted form.                                   *)
(***************************************************************************)
RECURSIVE WordOf(_)
\* The word with the given bits set.
WordOf(bits) ==
    IF bits = {} THEN 0
    ELSE LET b == CHOOSE x \in bits : TRUE
         IN  Pow(2, b) + WordOf(bits \ {b})

\* FasmAssembler.get_frames(sparse): every frame of the grid zero filled
\* unless sparse, then the bits the features set.
get_frames(asm, sp, tinfo) ==
    LET init == IF sp THEN {} ELSE UNION {TileFrames(tinfo[i]) : i \in DOMAIN tinfo}
        addrs == init \cup {b[1] : b \in asm.frames}
    IN  [a \in addrs |->
            [w \in 1..WordsPerFrame |->
                WordOf({b[3] : b \in {c \in asm.frames : c[1] = a /\ c[2] = w - 1}})]]

\* '0x%08X' % n: the eight hexadecimal digits of n.
Hex8(n) == [i \in 1..8 |-> (n \div Pow(16, 8 - i)) % 16]

\* dump_frm(f, frames): one line for each address, ascending.
dump_frm(frm) ==
    LET addrs == SortedSeq(DOMAIN frm)
    IN  [k \in DOMAIN addrs |->
            [addr |-> Hex8(addrs[k]),
             words |-> [w \in DOMAIN frm[addrs[k]] |-> Hex8(frm[addrs[k]][w])]]]

Emit ==
    /\ pc = "emit"
    /\ \E sp \in BOOLEAN :
        /\ sparse' = sp
        /\ frames' = get_frames(assembler, sp, tileinfo)
        /\ f_out' = f_out \o dump_frm(get_frames(assembler, sp, tileinfo))
    /\ pc' = NextStage("emit")
    /\ UNCHANGED <<part_selected, emit_pudc_b_pullup, roi, fabric, pudc_pin,
                   tileinfo, package_pins, fasm_lines, extra_features,
                   tile_to_bank, bank_to_tile, pudc_b_tile_site, pudc_b_in_use,
                   callback, set_features, assembler, pudc_submitted,
                   stepdown_submitted, used_iob_sites, stepdown_banks,
                   stepdown_tags, missing_features, error, list_of_frames, ranges>>

(***************************************************************************)
(* The pipeline.                                                           *)
(***************************************************************************)
NoRanges ==
    [clb_start_address |-> None, clb_end_address |-> None,
     bram_start_address |-> None, bram_end_address |-> None]

\* The state on entry to fasm2frames for given part files and grid.
Entry(stage, pins, tinfo, in_use) ==
    /\ pc = stage
    /\ part_selected = FALSE
    /\ emit_pudc_b_pullup = FALSE
    /\ sparse = FALSE
    /\ roi = None
    /\ fabric = "a50t"
    /\ pudc_pin = None
    /\ tileinfo = tinfo
    /\ package_pins = pins
    /\ fasm_lines = <<>>
    /\ extra_features = <<>>
    /\ tile_to_bank = <<>>
    /\ bank_to_tile = <<>>
    /\ pudc_b_tile_site = None
    /\ pudc_b_in_use = FALSE
    /\ callback = "feature_callback"
    /\ set_features = {}
    /\ assembler = [frames_in_use |-> in_use, frames |-> {}]
    /\ pudc_submitted = <<>>
    /\ stepdown_submitted = <<>>
    /\ used_iob_sites = {}
    /\ stepdown_banks = {}
    /\ stepdown_tags = <<>>
    /\ missing_features = <<>>
    /\ error = None
    /\ list_of_frames = <<>>
    /\ ranges = NoRanges
    /\ frames = <<>>
    /\ f_out = <<>>

Init == Entry("topology", DevicePins, Device, {})

Next ==
    \/ BuildTopology
    \/ SetupPudc
    \/ MarkRoi
    \/ Parse
    \/ PudcInject
    \/ Stepdown
    \/ Scan
    \/ Emit

Spec == Init /\ [][Next]_vars

(***************************************************************************)
(* The same code entered with any pin table (the topology alone) and with  *)
(* any tile table and in-use addresses (the scan alone).                   *)
(***************************************************************************)
PinTables ==
    UNION { [1..n -> {PinRow(b, t) : b \in {"14", "15"}, t \in {T1, T3, HC1}}] :
            n \in 0..MaxPinRows }

InitTopo == \E pins \in PinTables : Entry("topology", pins, Device, {})

SpecTopo == InitTopo /\ [][BuildTopology]_vars

ScanBlocks ==
    { (k :> Bits(base, n, 0)) : k \in BlockTypes, base \in {0, 2}, n \in {1, 2} }

ScanTables ==
    UNION { [1..n -> {Tile("S", "S", 0, 0, <<>>, b) : b \in ScanBlocks}] :
            n \in 1..MaxScanTiles }

InitScan ==
    \E tinfo \in ScanTables, in_use \in SUBSET (0..MaxScanAddr) :
        Entry("scan", <<>>, tinfo, in_use)

SpecScan == InitScan /\ [][Scan]_vars

(***************************************************************************)
(* Properties.                                                             *)
(***************************************************************************)
\* The lines the main parse was given: the file and the extra features.
ParsedInput == Range(fasm_lines) \cup Range(extra_features)

\* Some non-zero feature tile.site.tag of the parsed input is on (tile, site).
SiteInInput(tile, site) ==
    \E f \in NonZeroFeatures(ParsedInput) :
        Len(f.feature) >= 3 /\ f.feature[1] = tile /\ f.feature[2] = site

\* The PUDC_B stage, and the STEPDOWN pass, have finished without raising.
PudcDone == pc \in {"stepdown", "scan", "emit", "done"}
StepdownDone == pc \in {"scan", "emit", "done"}

\* C1: with a part selected, once the STEPDOWN pass has finished, for every
\* bank of a non-zero STEPDOWN feature of the parsed input, every site of every
\* IOB33 tile of the bank that carried no non-zero feature in the parsed input
\* has had tile.site.tag submitted for every STEPDOWN tag recorded for the
\* bank, and every HCLK_IOI3 tile of the bank has had tile.STEPDOWN submitted.
C1_StepdownReachesEveryUnusedSite ==
    (part_selected /\ StepdownDone) =>
        \A f \in StepdownFeatures(ParsedInput) :
            LET bank == tile_to_bank[f.feature[1]]
            IN  \A tile \in bank_to_tile[bank] :
                /\ HasIOB33(tile) =>
                      \A site \in Range(get_iob_sites(tile)) :
                          ~SiteInInput(tile, site) =>
                              \A tag \in stepdown_tags[bank] :
                                  SetFeature(<<tile, site, tag>>, 1)
                                      \in Range(stepdown_submitted)
                /\ HasHCLK_IOI3(tile) =>
                      SetFeature(<<tile, "STEPDOWN">>, 1) \in Range(stepdown_submitted)

\* The features observed on the sites of a set of (tile, site) pairs.
FeaturesOn(sf, sites) ==
    {f \in sf : Len(f.feature) >= 3 /\ <<f.feature[1], f.feature[2]>> \in sites}

\* C2: the STEPDOWN pass submits no site-scoped feature tile.site.tag whose
\* (tile, site) is in used_iob_sites, and it leaves the features observed on
\* the used sites, and the frame bits already set, as they were.
C2_StepdownSkipsUsedSites ==
    [][pc = "stepdown" =>
        /\ \A line \in Range(stepdown_submitted') :
              Len(line.feature) >= 3 =>
                  <<line.feature[1], line.feature[2]>> \notin used_iob_sites'
        /\ FeaturesOn(set_features', used_iob_sites')
              = FeaturesOn(set_features, used_iob_sites')
        /\ assembler.frames \subseteq assembler'.frames]_vars

\* C2 witness: the pass has submitted a site-scoped feature in a bank that has
\* a used site.
C2_Witness ==
    /\ StepdownDone
    /\ \E line \in Range(stepdown_submitted), u \in used_iob_sites :
          Len(line.feature) >= 3 /\ line.feature[1] = u[1]

\* The PUDC_B pin's (tile, site) appears with a non-zero feature in the input.
PudcPinInInput ==
    \E f \in NonZeroFeatures(ParsedInput) :
        f.feature[1] = pudc_b_tile_site[1] /\ f.feature[2] = pudc_b_tile_site[2]

\* C3: once the PUDC_B stage is over: requested and the pin present, exactly
\* the three fallback features are submitted if the pin's (tile, site) has no
\* non-zero feature in the input, and none if it has one; not requested or no
\* pin, none is submitted (and the stage raises nothing).
C3_PudcInjectedIffPinUnused ==
    PudcDone =>
        IF emit_pudc_b_pullup /\ pudc_pin # None
        THEN IF PudcPinInInput
             THEN pudc_submitted = <<>>
             ELSE pudc_submitted = PudcFallback(find_pudc_b(pudc_pin))
        ELSE pudc_submitted = <<>>

\* C4: a feature of value 0 is never treated as in use: every used site, every
\* recorded STEPDOWN tag and the PUDC_B in-use flag rest on an observed
\* feature of non-zero value.
C4_ZeroValueNeverInUse ==
    /\ \A u \in used_iob_sites :
          \E f \in NonZeroFeatures(set_features) :
              Len(f.feature) >= 3 /\ f.feature[1] = u[1] /\ f.feature[2] = u[2]
    /\ \A bank \in DOMAIN stepdown_tags : \A tag \in stepdown_tags[bank] :
          \E f \in NonZeroFeatures(set_features) :
              /\ Len(f.feature) >= 3 /\ f.feature[3] = tag
              /\ tile_to_bank[f.feature[1]] = bank
    /\ pudc_b_in_use =>
          \E f \in NonZeroFeatures(set_features) :
              f.feature[1] = pudc_b_tile_site[1] /\ f.feature[2] = pudc_b_tile_site[2]

ScanDone == pc \in {"emit", "done"}

\* The in-use addresses that lie in [base, base+frames) of a tile's block.
InUseIn(block) ==
    {a \in assembler.frames_in_use :
        \E i \in DOMAIN tileinfo : InBlock(a, tileinfo[i], block)}

MinOf(S) == CHOOSE x \in S : \A y \in S : x <= y
MaxOf(S) == CHOOSE x \in S : \A y \in S : y <= x

\* C5: after the scan, for each block kind the reported start is the minimum
\* and the reported end the maximum of the in-use addresses that lie in the
\* range of some tile of the kind, and both are None exactly when there is none.
C5_RangesAreMinAndMax ==
    ScanDone =>
        /\ IF InUseIn(CLB_IO_CLK) = {}
           THEN ranges.clb_start_address = None /\ ranges.clb_end_address = None
           ELSE /\ ranges.clb_start_address = Some(MinOf(InUseIn(CLB_IO_CLK)))
                /\ ranges.clb_end_address = Some(MaxOf(InUseIn(CLB_IO_CLK)))
        /\ IF InUseIn(BLOCK_RAM) = {}
           THEN ranges.bram_start_address = None /\ ranges.bram_end_address = None
           ELSE /\ ranges.bram_start_address = Some(MinOf(InUseIn(BLOCK_RAM)))
                /\ ranges.bram_end_address = Some(MaxOf(InUseIn(BLOCK_RAM)))

\* C5 witness: two block-RAM tiles listed with the higher range first, an
\* in-use address in each, and the scan done.
C5_Witness ==
    /\ ScanDone
    /\ Len(tileinfo) >= 2
    /\ BLOCK_RAM \in DOMAIN tileinfo[1].bits /\ BLOCK_RAM \in DOMAIN tileinfo[2].bits
    /\ tileinfo[1].bits[BLOCK_RAM].base_address > tileinfo[2].bits[BLOCK_RAM].base_address
    /\ \E a, b \in assembler.frames_in_use :
          /\ InBlock(a, tileinfo[1], BLOCK_RAM) /\ InBlock(b, tileinfo[2], BLOCK_RAM)
          /\ ~InBlock(a, tileinfo[2], BLOCK_RAM)
    /\ ranges.bram_start_address # ranges.bram_end_address

\* C6: with an ROI given, every frame of the returned frame map (and so every
\* line written) is a frame of some tile inside the rectangle.
C6_NoFrameOutsideRoi ==
    (pc = "done" /\ roi # None) =>
        DOMAIN frames \subseteq UNION {TileFrames(tileinfo[i]) : i \in RoiTiles(roi[1])}

\* What fasm2frames returns and writes once the passes leave the given
\* assembler state and exception: for either value of sparse, the frame map,
\* the four range endpoints and the lines written.
FinalOutput(asm, err) ==
    [aborted |-> err # None,
     out |-> [sp \in BOOLEAN |->
                IF err # None THEN <<>>
                ELSE << get_frames(asm, sp, tileinfo),
                        ScanRanges(SortedSeq(asm.frames_in_use), tileinfo),
                        dump_frm(get_frames(asm, sp, tileinfo)) >>]]

\* The pass run with one fixed iteration order of its sets.
ReferenceOutcome ==
    StepdownOutcome(
        CHOOSE o \in Perms(StepdownBanks(set_features)) : TRUE,
        CHOOSE o \in OrdersOf([b \in StepdownBanks(set_features) |-> bank_to_tile[b]]) : TRUE,
        CHOOSE o \in OrdersOf(StepdownTags(set_features)) : TRUE)

\* C7: whatever order the STEPDOWN pass iterates its sets in (the banks, the
\* tiles of a bank, the tags of a bank), the run ends the same way and with the
\* same frame map, range endpoints and persisted lines as under one fixed order.
C7_OutputIndependentOfOrder ==
    [][(pc = "stepdown" /\ part_selected /\ ~BankLookupFails(set_features)) =>
        FinalOutput(assembler', error') =
            FinalOutput([frames_in_use |-> ReferenceOutcome.st.frames_in_use,
                         frames |-> ReferenceOutcome.st.frames],
                        ReferenceOutcome.error)]_vars

\* C7 witness: the pass has run for a bank with two tags and three tiles, so
\* that several iteration orders exist, and the run goes on.
C7_Witness ==
    /\ StepdownDone
    /\ \E bank \in stepdown_banks :
          Cardinality(stepdown_tags[bank]) >= 2 /\ Cardinality(bank_to_tile[bank]) >= 3
    /\ Len(stepdown_submitted) >= 4

\* C8: nothing is written to f_out unless every stage before the dump has
\* completed without error: when fasm2frames has aborted f_out is empty, and
\* f_out holds lines only once the run is done.
C8_NoOutputUnlessAllPassesDone ==
    /\ pc = "aborted" => f_out = <<>>
    /\ error # None => f_out = <<>>
    /\ f_out # <<>> => pc = "done"

\* C8 witness: the STEPDOWN pass aborted a run that had already set frame bits.
C8_Witness ==
    /\ pc = "aborted"
    /\ error # None /\ error[1].at = "stepdown"
    /\ assembler.frames # {}

\* The features the STEPDOWN pass is to synthesize, from the sets it built.
SynthesizedFeatures ==
    UNION { UNION {
        (IF HasIOB33(tile)
         THEN { SetFeature(<<tile, site, tag>>, 1) :
                    site \in {x \in Range(get_iob_sites(tile)) :
                                <<tile, x>> \notin used_iob_sites},
                    tag \in stepdown_tags[bank] }
         ELSE {})
        \cup (IF HasHCLK_IOI3(tile) THEN {SetFeature(<<tile, "STEPDOWN">>, 1)} ELSE {})
        : tile \in bank_to_tile[bank] } : bank \in stepdown_banks }

\* The STEPDOWN pass raised its FasmLookupError.
StepdownRaised ==
    pc = "aborted" /\ error # None /\ error[1].at = "stepdown"
        /\ error[1].kind = "FasmLookupError"

\* The submissions of the pass that the segbits lack.
FailedSubmissions ==
    {i \in DOMAIN stepdown_submitted : LookupFails(fabric, stepdown_submitted[i])}

\* C9: a lookup failure does not stop the STEPDOWN pass: when the pass has
\* scanned, every synthesized feature of every STEPDOWN bank was submitted; the
\* run goes on only if no submission failed, and otherwise one FasmLookupError
\* is raised that holds every failure.
C9_AllSubmittedAndFailuresJoint ==
    part_selected =>
        /\ (StepdownDone \/ StepdownRaised) =>
              Range(stepdown_submitted) = SynthesizedFeatures
        /\ StepdownDone => FailedSubmissions = {}
        /\ StepdownRaised =>
              /\ FailedSubmissions # {}
              /\ Len(error[1].msg) = Cardinality(FailedSubmissions)
              /\ Range(error[1].msg) =
                    {stepdown_submitted[i].feature : i \in FailedSubmissions}

\* C9 witness: the pass raised two failures jointly, and a feature submitted
\* after the first failing one was still set.
C9_Witness ==
    /\ StepdownRaised
    /\ Len(error[1].msg) >= 2
    /\ \E i, j \in DOMAIN stepdown_submitted :
          /\ i < j /\ i \in FailedSubmissions /\ j \notin FailedSubmissions

\* C10: once the topology is built, every tile of tiles_of(b) has bank_of(t) = b.
C10_TileInOneBank ==
    pc # "topology" =>
        \A b \in DOMAIN bank_to_tile : \A t \in bank_to_tile[b] : tile_to_bank[t] = b

\* The frame bits of the lines the PUDC_B injection and the STEPDOWN pass
\* submitted.
SynthesizedBits ==
    UNION { FeatureBits(fabric, line) :
                line \in Range(pudc_submitted) \cup Range(stepdown_submitted) }

\* The bit (frame_addr, word_addr, bit_index) is set in the frame map.
BitSet(frm, b) ==
    /\ b[1] \in DOMAIN frm
    /\ (frm[b[1]][b[2] + 1] \div Pow(2, b[3])) % 2 = 1

\* The address lies between the reported endpoints of each block kind that
\* holds it.
InRanges(addr) ==
    /\ (\E i \in DOMAIN tileinfo : InBlock(addr, tileinfo[i], CLB_IO_CLK)) =>
          /\ ranges.clb_start_address # None /\ ranges.clb_end_address # None
          /\ ranges.clb_start_address[1] <= addr /\ addr <= ranges.clb_end_address[1]
    /\ (\E i \in DOMAIN tileinfo : InBlock(addr, tileinfo[i], BLOCK_RAM)) =>
          /\ ranges.bram_start_address # None /\ ranges.bram_end_address # None
          /\ ranges.bram_start_address[1] <= addr /\ addr <= ranges.bram_end_address[1]

\* C11: the stages run in order. Once the scan is done, every frame a
\* synthesized PUDC_B or STEPDOWN feature put in use is in list_of_frames and
\* between the range endpoints of its block kind; once the run is done, every
\* bit of such a feature is set in the frame map; and the sets the STEPDOWN
\* pass built hold every used site and every STEPDOWN tag of the whole parsed
\* input.
C11_LaterStagesSeeEarlierResults ==
    /\ ScanDone =>
          \A b \in SynthesizedBits :
              b[1] \in Range(list_of_frames) /\ InRanges(b[1])
    /\ pc = "done" => \A b \in SynthesizedBits : BitSet(frames, b)
    /\ (StepdownDone /\ part_selected) =>
          /\ UsedIobSites(ParsedInput) \subseteq used_iob_sites
          /\ StepdownBanks(ParsedInput) \subseteq stepdown_banks
          /\ \A bank \in StepdownBanks(ParsedInput) :
                StepdownTags(ParsedInput)[bank] \subseteq stepdown_tags[bank]

\* C11 witness: a run is done in which the PUDC_B injection and the STEPDOWN
\* pass both submitted lines, and some frame is in the scanned list because of
\* a synthesized feature alone.
C11_Witness ==
    /\ pc = "done"
    /\ pudc_submitted # <<>> /\ stepdown_submitted # <<>>
    /\ \E b \in SynthesizedBits :
          /\ b[1] \in Range(list_of_frames)
          /\ b[1] \notin UNION { {c[1] : c \in FeatureBits(fabric, line)} :
                                    line \in ParsedInput }
          /\ roi = None
====
